---- MODULE Spec2Model ----
(***************************************************************************)
(* Model of goconfig.Parse (src/goconfig.go): a scanner for gitconfig      *)
(* text.  A rune is a one-symbol string; Go strings (section names, keys,  *)
(* values) are sequences of runes.  The parser advances by one call of     *)
(* nextRune per step; pc names the call site the parser is about to        *)
(* execute.  The input is supplied rune by rune: runes holds the part of   *)
(* the remaining input that has already been fixed, unread bounds how many *)
(* further runes may follow it.                                            *)
(***************************************************************************)
EXTENDS Integers, Sequences, FiniteSets, TLC

\* ---------------------------------------------------------------- bounds
MaxLen == 6      \* runes in an input over Alphabet
MaxHeaderLen == 8   \* runes in an input over HeaderAlphabet
MaxValue == 4    \* runes in a value
MaxKey == 2      \* runes in a key name
MaxName == 3     \* runes in a section name
MaxCursorLen == 4   \* runes in an input the cursor is run over on its own
MaxLiveLen == 4  \* runes in an input over Alphabet when termination is checked

\* ----------------------------------------------------------------- runes
LF == "LF"       \* '\n'
CR == "CR"       \* '\r'
TAB == "TAB"     \* '\t'
BS == "BS"       \* '\b'
SP == " "
NUL == "NUL"     \* the zero rune
ANY == "ANY"     \* a rune of the input, not '\n', that is not fixed yet
QUOTE == "\""
BSLASH == "\\"

Letters == {"b", "B", "t", "n"}
Digits == {"1"}
Spaces == {SP, TAB, LF, CR}
Alphabet == Letters \cup Digits \cup Spaces \cup
            {"[", "]", QUOTE, BSLASH, "=", ";", "#", ".", "-", "!"}

\* the runes of inputs that exercise section headers at greater length
HeaderAlphabet == {"[", "]", QUOTE, BSLASH, SP, LF, "B", "b", "="}

\* the runes of the inputs the cursor is run over on its own
CursorAlphabet == {CR, LF, "b"}

\* ----------------------------------------------------------------- errors
Nil == "nil"
ErrInvalidKeyChar == "ErrInvalidKeyChar"
ErrUnexpectedEOF == "ErrUnexpectedEOF"
ErrInvalidSectionChar == "ErrInvalidSectionChar"
ErrSectionNewLine == "ErrSectionNewLine"
ErrMissingStartQuote == "ErrMissingStartQuote"
ErrMissingClosingBracket == "ErrMissingClosingBracket"
ErrInvalidEscapeSequence == "ErrInvalidEscapeSequence"
ErrUnfinishedQuote == "ErrUnfinishedQuote"

\* ------------------------------------------------------------ classifiers
lower(c) == IF c = "B" THEN "b" ELSE c

isspace(c) == c \in Spaces

isalpha(c) == c \in Letters

isnum(c) == c \in Digits

isalnum(c) == isalpha(c) \/ isnum(c)

iskeychar(c) == isalnum(c) \/ c = "-"

\* ----------------------------------------------------------------- cursor
\* nextRune counting the end of the input as a line
nextRuneCountsEnd(rs, ln, e) ==
    IF Len(rs) = 0
    THEN [c |-> LF, runes |-> rs, linenr |-> ln + 1, eof |-> TRUE]
    ELSE LET dos == rs[1] = CR /\ Len(rs) > 1 /\ rs[2] = LF
             rs1 == IF dos THEN Tail(rs) ELSE rs
             c1  == IF dos THEN LF ELSE rs[1]
             ln1 == IF c1 = LF THEN ln + 1 ELSE ln
         IN  [c |-> c1, runes |-> Tail(rs1), linenr |-> ln1, eof |-> e]

\* nextRune leaving the end flag alone
nextRuneNoEndFlag(rs, ln, e) ==
    IF Len(rs) = 0
    THEN [c |-> LF, runes |-> rs, linenr |-> ln, eof |-> e]
    ELSE LET dos == rs[1] = CR /\ Len(rs) > 1 /\ rs[2] = LF
             rs1 == IF dos THEN Tail(rs) ELSE rs
             c1  == IF dos THEN LF ELSE rs[1]
             ln1 == IF c1 = LF THEN ln + 1 ELSE ln
         IN  [c |-> c1, runes |-> Tail(rs1), linenr |-> ln1, eof |-> e]

\* nextRune turning a lone '\r' into a newline as well
nextRuneLoneCR(rs, ln, e) ==
    IF Len(rs) = 0
    THEN [c |-> LF, runes |-> rs, linenr |-> ln, eof |-> TRUE]
    ELSE LET dos == rs[1] = CR /\ Len(rs) > 1 /\ rs[2] = LF
             rs1 == IF dos THEN Tail(rs) ELSE rs
             c1  == IF rs[1] = CR THEN LF ELSE rs[1]
             ln1 == IF c1 = LF THEN ln + 1 ELSE ln
         IN  [c |-> c1, runes |-> Tail(rs1), linenr |-> ln1, eof |-> e]

\* nextRune raising the end flag as soon as it has taken the last rune
nextRuneEarlyEnd(rs, ln, e) ==
    IF Len(rs) = 0
    THEN [c |-> LF, runes |-> rs, linenr |-> ln, eof |-> TRUE]
    ELSE LET dos == rs[1] = CR /\ Len(rs) > 1 /\ rs[2] = LF
             rs1 == IF dos THEN Tail(rs) ELSE rs
             c1  == IF dos THEN LF ELSE rs[1]
             ln1 == IF c1 = LF THEN ln + 1 ELSE ln
         IN  [c |-> c1, runes |-> Tail(rs1), linenr |-> ln1,
              eof |-> (e \/ Len(rs1) = 1)]

\* nextRune on the remaining input rs with line counter ln: the rune
\* returned, the input left, the counter and the end flag afterwards.
nextRune(rs, ln, e) ==
    IF Len(rs) = 0
    THEN [c |-> LF, runes |-> rs, linenr |-> ln, eof |-> TRUE]
    ELSE LET dos == rs[1] = CR /\ Len(rs) > 1 /\ rs[2] = LF
             rs1 == IF dos THEN Tail(rs) ELSE rs
             c1  == IF dos THEN LF ELSE rs[1]
             ln1 == IF c1 = LF THEN ln + 1 ELSE ln
         IN  IF Len(rs1) = 0
             THEN [c |-> LF, runes |-> rs1, linenr |-> ln1 + 1, eof |-> TRUE]
             ELSE [c |-> c1, runes |-> Tail(rs1), linenr |-> ln1, eof |-> e]

\* cfg[key] = value on a Go map
mapSet(m, k, v) == [x \in DOMAIN m \cup {k} |-> IF x = k THEN v ELSE m[x]]


\* ------------------------------------------------ pieces of the sub-parsers
\* name += string(lower(c)) in getSectionKey
sectionName(nm, ch) == Append(nm, lower(ch))

\* the quoted subsection lower-cased like the base name
extNameLowers(nm, ch) == Append(nm, lower(ch))

\* name += string(c) in getExtendedSectionKey
extName(nm, ch) == Append(nm, ch)

\* the key started without the section prefix
keyStartNoPrefix(nm, ch) == <<ch>>

\* key := name + string(c) in parse
keyStart(nm, ch) == Append(nm, ch)

\* *name += string(lower(c)) in getValue
keyName(k, ch) == Append(k, lower(ch))

\* cf.linenr-- before the errors raised on a newline
lineFix(ln) == ln - 1

\* the switch with the escapes of a quote and of a backslash accepted
escapeAcceptsQuote(ch) ==
    CASE ch = LF  -> "cont"
      [] ch = "t" -> TAB
      [] ch = "b" -> BS
      [] ch = "n" -> LF
      [] ch = QUOTE -> QUOTE
      [] ch = BSLASH -> BSLASH
      [] OTHER    -> "bad"

\* the switch on the rune after a backslash in parseValue: "cont" for a
\* line continuation, "bad" for ErrInvalidEscapeSequence, else the rune
\* that is appended
escape(ch) ==
    CASE ch = LF  -> "cont"
      [] ch = "t" -> TAB
      [] ch = "b" -> BS
      [] ch = "n" -> LF
      [] OTHER    -> "bad"

\* a run of pending whitespace flushed as one space
flushOne(v, sp) == IF sp = 0 THEN v ELSE Append(v, SP)

\* for space != 0 { value += " "; space-- }
RECURSIVE flush(_, _)
flush(v, sp) == IF sp = 0 THEN v ELSE flush(Append(v, SP), sp - 1)

\* the assignment made before the error is tested
parseAssignOnError(m, k, v, e) == mapSet(m, k, v)

\* the assignment made only for a key that is not in the map yet
parseAssignKeepsFirst(m, k, v, e) ==
    IF e # Nil \/ k \in DOMAIN m THEN m ELSE mapSet(m, k, v)

\* value, err := cf.getValue(&key); if err != nil { return }; cfg[key] = value
parseAssign(m, k, v, e) == IF e # Nil THEN m ELSE mapSet(m, k, v)

\* ------------------------------------------------------------------ state
VARIABLES
    runes, unread,      \* parser.runes: the fixed prefix, and how many more may follow
    alphabet,           \* the runes the input is drawn from
    linenr, eof,        \* parser.linenr, parser.eof
    pc,                 \* the nextRune call site the parser is at, or "done"
    err,                \* the error Parse returns
    cfg, name, comment, \* locals of parse
    sname,              \* local name of getSectionKey / getExtendedSectionKey
    c,                  \* the rune returned by the last nextRune
    key,                \* key of parse, *name of getValue
    value, quote, vcomment, space,   \* locals of parseValue
    nl, atLF,           \* history: '\n' runes of the input consumed; the last read consumed one
    calls,              \* history: the calls made of nextRune on its own
    stmts,              \* history: the key/value statements completed, in order
    typed,              \* history: the key name as written in the input
    origin,             \* history: for each rune of value, "ws" if flushed from unquoted whitespace
    hdr                 \* history: the runes read since the '[' of the header that is
                        \* being parsed, or that the last read completed or failed in

vars == <<runes, unread, alphabet, linenr, eof, pc, err, cfg, name, comment, sname, c,
          key, value, quote, vcomment, space, nl, atLF, calls, stmts, typed, origin, hdr>>

\* The inputs: what the next call of nextRune may find.  w is the remaining
\* input as far as that call looks at it, u the bound on what follows w.
\* After a '\r' the call looks one rune ahead, and only at whether it is a
\* '\n': a rune it finds not to be one is left in runes as ANY and is
\* fixed when it is read.
AfterCR(u) ==
    IF CR \notin alphabet THEN {}
    ELSE {[w |-> <<CR>>, u |-> 0]}
         \cup (IF u >= 1
               THEN {[w |-> <<CR, LF>>, u |-> u - 1], [w |-> <<CR, ANY>>, u |-> u - 1]}
               ELSE {})

Feeds(rs, u) ==
    IF rs = <<>>
    THEN {[w |-> <<>>, u |-> 0]}
         \cup (IF u >= 1
               THEN {[w |-> <<x>>, u |-> u - 1] : x \in alphabet \ {CR}}
                    \cup AfterCR(u - 1)
               ELSE {})
    ELSE {[w |-> <<x>>, u |-> u] : x \in alphabet \ {CR, LF}}
         \cup AfterCR(u)

RECURSIVE NumLF(_)
NumLF(s) == IF s = <<>> THEN 0
            ELSE (IF s[1] = LF THEN 1 ELSE 0) + NumLF(Tail(s))

\* the cursor after the call r == nextRune(f.w, linenr, eof)
Advance(f, r) ==
    LET used == SubSeq(f.w, 1, Len(f.w) - Len(r.runes)) IN
    /\ runes' = r.runes
    /\ unread' = IF pc' = "done" THEN 0 ELSE f.u
    /\ eof' = r.eof
    /\ c' = r.c
    /\ nl' = nl + NumLF(used)
    /\ atLF' = (NumLF(used) > 0)
    /\ UNCHANGED <<alphabet, calls>>

NoStatement ==
    /\ key' = <<>> /\ value' = <<>> /\ quote' = FALSE /\ vcomment' = FALSE
    /\ space' = 0 /\ typed' = <<>> /\ origin' = <<>>

\* Parse returns (cfg, linenr, e)
Return(e, ln) ==
    /\ pc' = "done" /\ err' = e /\ linenr' = ln
    /\ comment' = FALSE /\ sname' = <<>>
    /\ NoStatement

\* The state after parser{[]rune(string(bytes)), 1, false}, for the inputs of
\* at most n runes over the alphabet a.
Start(a, n) ==
    /\ runes = <<>> /\ unread = n /\ alphabet = a
    /\ linenr = 1 /\ eof = FALSE
    /\ pc = "parse" /\ err = Nil
    /\ cfg = [k \in {} |-> <<>>] /\ name = <<>> /\ comment = FALSE
    /\ sname = <<>> /\ c = NUL
    /\ key = <<>> /\ value = <<>> /\ quote = FALSE /\ vcomment = FALSE /\ space = 0
    /\ nl = 0 /\ atLF = FALSE /\ calls = 0
    /\ stmts = <<>> /\ typed = <<>> /\ origin = <<>> /\ hdr = <<>>


\* ---------------------------------------------------------------- actions
\* One iteration of the loop of parse (lines 26-59), up to the call of
\* getSectionKey or getValue.
ParseLoop ==
    /\ pc = "parse"
    /\ \E f \in Feeds(runes, unread) :
         LET r == nextRune(f.w, linenr, eof) IN
         /\ IF r.c = LF
            THEN IF r.eof
                 THEN /\ Return(Nil, r.linenr)
                      /\ hdr' = <<>>
                      /\ UNCHANGED <<cfg, name, stmts>>
                 ELSE /\ comment' = FALSE
                      /\ linenr' = r.linenr
                      /\ hdr' = <<>>
                      /\ UNCHANGED <<pc, err, cfg, name, sname, key, value, quote,
                                     vcomment, space, stmts, typed, origin>>
            ELSE IF comment \/ isspace(r.c)
            THEN /\ linenr' = r.linenr
                 /\ hdr' = <<>>
                 /\ UNCHANGED <<pc, err, cfg, name, comment, sname, key, value, quote,
                                vcomment, space, stmts, typed, origin>>
            ELSE IF r.c = "#" \/ r.c = ";"
            THEN /\ comment' = TRUE
                 /\ linenr' = r.linenr
                 /\ hdr' = <<>>
                 /\ UNCHANGED <<pc, err, cfg, name, sname, key, value, quote,
                                vcomment, space, stmts, typed, origin>>
            ELSE IF r.c = "["
            THEN /\ pc' = "getSectionKey"
                 /\ sname' = <<>> /\ hdr' = <<>>
                 /\ linenr' = r.linenr
                 /\ UNCHANGED <<err, cfg, name, comment, key, value, quote,
                                vcomment, space, stmts, typed, origin>>
            ELSE IF ~isalpha(r.c)
            THEN /\ Return(ErrInvalidKeyChar, r.linenr)
                 /\ hdr' = <<>>
                 /\ UNCHANGED <<cfg, name, stmts>>
            ELSE /\ pc' = "getValue"
                 /\ key' = keyStart(name, r.c)
                 /\ typed' = <<r.c>>
                 /\ linenr' = r.linenr
                 /\ hdr' = <<>>
                 /\ UNCHANGED <<err, cfg, name, comment, sname, value, quote,
                                vcomment, space, stmts, origin>>
         /\ Advance(f, r)

\* getSectionKey / getExtendedSectionKey fail with e: parse assigns the
\* empty name and returns
HeaderFails(e, r, ln) ==
    /\ Return(e, ln)
    /\ hdr' = Append(hdr, r.c)
    /\ name' = <<>>
    /\ UNCHANGED <<cfg, stmts>>

\* getSectionKey / getExtendedSectionKey return nm: name += "."
HeaderDone(nm, r) ==
    /\ name' = Append(nm, ".")
    /\ pc' = "parse"
    /\ linenr' = r.linenr
    /\ sname' = <<>>
    /\ hdr' = Append(hdr, r.c)
    /\ UNCHANGED <<err, cfg, comment, key, value, quote, vcomment, space,
                   stmts, typed, origin>>

\* the header parsers go on at call site p with the name nm
HeaderStep(p, nm, r) ==
    /\ pc' = p
    /\ sname' = nm
    /\ Len(nm) <= MaxName
    /\ hdr' = Append(hdr, r.c)
    /\ linenr' = r.linenr
    /\ UNCHANGED <<err, cfg, name, comment, key, value, quote, vcomment, space,
                   stmts, typed, origin>>

\* One iteration of the loop of getSectionKey (lines 89-104); on whitespace
\* it enters getExtendedSectionKey, whose loop starts by testing c (line 110).
GetSectionKey ==
    /\ pc = "getSectionKey"
    /\ \E f \in Feeds(runes, unread) :
         LET r == nextRune(f.w, linenr, eof) IN
         /\ IF r.eof
            THEN HeaderFails(ErrUnexpectedEOF, r, r.linenr)
            ELSE IF r.c = "]"
            THEN HeaderDone(sname, r)
            ELSE IF isspace(r.c)
            THEN IF r.c = LF
                 THEN HeaderFails(ErrSectionNewLine, r, lineFix(r.linenr))
                 ELSE HeaderStep("extSpace", sname, r)
            ELSE IF ~iskeychar(r.c) /\ r.c # "."
            THEN HeaderFails(ErrInvalidSectionChar, r, r.linenr)
            ELSE HeaderStep("getSectionKey", sectionName(sname, r.c), r)
         /\ Advance(f, r)

\* One iteration of the first loop of getExtendedSectionKey (lines 109-118)
\* and, when it breaks, the test for the opening quote (lines 119-122).
ExtSpace ==
    /\ pc = "extSpace"
    /\ \E f \in Feeds(runes, unread) :
         LET r == nextRune(f.w, linenr, eof) IN
         /\ IF isspace(r.c)
            THEN IF r.c = LF
                 THEN HeaderFails(ErrSectionNewLine, r, lineFix(r.linenr))
                 ELSE HeaderStep("extSpace", sname, r)
            ELSE IF r.c # QUOTE
            THEN HeaderFails(ErrMissingStartQuote, r, r.linenr)
            ELSE HeaderStep("extQuoted", Append(sname, "."), r)
         /\ Advance(f, r)

\* The second loop leaving at a newline as it does at the closing quote, the
\* test for the bracket then failing.
ExtQuotedBreaksAtNewline ==
    /\ pc = "extQuoted"
    /\ \E f \in Feeds(runes, unread) :
         LET r == nextRune(f.w, linenr, eof) IN
         /\ IF r.c = LF
            THEN HeaderFails(ErrMissingClosingBracket, r, r.linenr)
            ELSE IF r.c = QUOTE
            THEN HeaderStep("extClose", sname, r)
            ELSE IF r.c = BSLASH
            THEN HeaderStep("extEscape", sname, r)
            ELSE HeaderStep("extQuoted", extName(sname, r.c), r)
         /\ Advance(f, r)

\* One iteration of the second loop of getExtendedSectionKey (lines 123-140),
\* up to the read of the rune after a backslash.
ExtQuoted ==
    /\ pc = "extQuoted"
    /\ \E f \in Feeds(runes, unread) :
         LET r == nextRune(f.w, linenr, eof) IN
         /\ IF r.c = LF
            THEN HeaderFails(ErrSectionNewLine, r, lineFix(r.linenr))
            ELSE IF r.c = QUOTE
            THEN HeaderStep("extClose", sname, r)
            ELSE IF r.c = BSLASH
            THEN HeaderStep("extEscape", sname, r)
            ELSE HeaderStep("extQuoted", extName(sname, r.c), r)
         /\ Advance(f, r)

\* The rune after a backslash in the quoted subsection (lines 133-139).
ExtEscape ==
    /\ pc = "extEscape"
    /\ \E f \in Feeds(runes, unread) :
         LET r == nextRune(f.w, linenr, eof) IN
         /\ IF r.c = LF
            THEN HeaderFails(ErrSectionNewLine, r, lineFix(r.linenr))
            ELSE HeaderStep("extQuoted", extName(sname, r.c), r)
         /\ Advance(f, r)

\* The rune after the closing quote (lines 141-144).
ExtClose ==
    /\ pc = "extClose"
    /\ \E f \in Feeds(runes, unread) :
         LET r == nextRune(f.w, linenr, eof) IN
         /\ IF r.c # "]"
            THEN HeaderFails(ErrMissingClosingBracket, r, r.linenr)
            ELSE HeaderDone(sname, r)
         /\ Advance(f, r)


\* getValue returns ("", e) or parseValue's ("", e): parse returns cfg, e
StatementFails(e, ln) ==
    /\ Return(e, ln)
    /\ cfg' = parseAssign(cfg, key, <<>>, e)
    /\ UNCHANGED <<name, stmts, hdr>>

\* getValue returns (v, nil): parse stores it and loops
StatementDone(v, org, ln) ==
    /\ cfg' = parseAssign(cfg, key, v, Nil)
    /\ stmts' = Append(stmts, [key |-> key, value |-> v, prefix |-> name,
                               typed |-> typed, origin |-> org])
    /\ pc' = "parse"
    /\ linenr' = ln
    /\ NoStatement
    /\ UNCHANGED <<err, name, comment, sname, hdr>>

\* getValue taking every rune but '=' for the end of the line
AfterNameLenient(r) ==
    IF r.c = "="
    THEN /\ pc' = "parseValue"
         /\ value' = <<>> /\ quote' = FALSE /\ vcomment' = FALSE /\ space' = 0
         /\ origin' = <<>>
         /\ linenr' = r.linenr
         /\ UNCHANGED <<err, cfg, name, comment, sname, key, stmts, typed, hdr>>
    ELSE StatementDone(<<>>, <<>>, r.linenr)

\* getValue after the key name and the blanks that follow it (lines 168-177),
\* r.c being the rune that ended them
AfterName(r) ==
    IF r.c # LF
    THEN IF r.c # "="
         THEN StatementFails(ErrInvalidKeyChar, r.linenr)
         ELSE /\ pc' = "parseValue"
              /\ value' = <<>> /\ quote' = FALSE /\ vcomment' = FALSE /\ space' = 0
              /\ origin' = <<>>
              /\ linenr' = r.linenr
              /\ UNCHANGED <<err, cfg, name, comment, sname, key, stmts, typed, hdr>>
    ELSE StatementDone(<<>>, <<>>, r.linenr)

\* the blanks after the key name are skipped at call site "getValueSpace"
AfterKeyChars(r) ==
    IF r.c = SP \/ r.c = TAB
    THEN /\ pc' = "getValueSpace"
         /\ linenr' = r.linenr
         /\ UNCHANGED <<err, cfg, name, comment, sname, key, value, quote, vcomment,
                        space, stmts, typed, origin, hdr>>
    ELSE AfterName(r)

\* One iteration of the first loop of getValue (lines 153-162).
GetValue ==
    /\ pc = "getValue"
    /\ \E f \in Feeds(runes, unread) :
         LET r == nextRune(f.w, linenr, eof) IN
         /\ IF r.eof \/ ~iskeychar(r.c)
            THEN AfterKeyChars(r)
            ELSE /\ key' = keyName(key, r.c)
                 /\ typed' = Append(typed, r.c)
                 /\ Len(typed') <= MaxKey
                 /\ linenr' = r.linenr
                 /\ UNCHANGED <<pc, err, cfg, name, comment, sname, value, quote,
                                vcomment, space, stmts, origin, hdr>>
         /\ Advance(f, r)

\* One iteration of the second loop of getValue (lines 164-166).
GetValueSpace ==
    /\ pc = "getValueSpace"
    /\ \E f \in Feeds(runes, unread) :
         LET r == nextRune(f.w, linenr, eof) IN
         /\ AfterKeyChars(r)
         /\ Advance(f, r)

RECURSIVE Tags(_, _)
Tags(t, n) == IF n = 0 THEN <<>> ELSE <<t>> \o Tags(t, n - 1)

\* parseValue goes on at call site p
ValueStep(p, v, org, q, cm, sp, r) ==
    /\ pc' = p
    /\ value' = v /\ origin' = org /\ quote' = q /\ vcomment' = cm /\ space' = sp
    /\ Len(v) <= MaxValue
    /\ linenr' = r.linenr
    /\ UNCHANGED <<err, cfg, name, comment, sname, key, stmts, typed, hdr>>

\* The loop of parseValue with the pending whitespace flushed before the
\* test for a comment rune.
ParseValueFlushesFirst ==
    /\ pc = "parseValue"
    /\ \E f \in Feeds(runes, unread) :
         LET r == nextRune(f.w, linenr, eof)
             v1 == flush(value, space)
             o1 == origin \o Tags("ws", space)
         IN
         /\ IF r.c = LF
            THEN IF quote
                 THEN StatementFails(ErrUnfinishedQuote, lineFix(r.linenr))
                 ELSE StatementDone(value, origin, r.linenr)
            ELSE IF vcomment
            THEN ValueStep("parseValue", value, origin, quote, vcomment, space, r)
            ELSE IF isspace(r.c) /\ ~quote
            THEN ValueStep("parseValue", value, origin, quote, vcomment,
                           IF Len(value) > 0 THEN space + 1 ELSE space, r)
            ELSE IF ~quote /\ (r.c = ";" \/ r.c = "#")
            THEN ValueStep("parseValue", v1, o1, quote, TRUE, 0, r)
            ELSE IF r.c = BSLASH
            THEN ValueStep("parseValueEscape", v1, o1, quote, vcomment, 0, r)
            ELSE IF r.c = QUOTE
            THEN ValueStep("parseValue", v1, o1, ~quote, vcomment, 0, r)
            ELSE ValueStep("parseValue", Append(v1, r.c), Append(o1, "ch"),
                           quote, vcomment, 0, r)
         /\ Advance(f, r)

\* The loop of parseValue with the comment runes tested in quote mode too.
ParseValueCommentInQuotes ==
    /\ pc = "parseValue"
    /\ \E f \in Feeds(runes, unread) :
         LET r == nextRune(f.w, linenr, eof)
             v1 == flush(value, space)
             o1 == origin \o Tags("ws", space)
         IN
         /\ IF r.c = LF
            THEN IF quote
                 THEN StatementFails(ErrUnfinishedQuote, lineFix(r.linenr))
                 ELSE StatementDone(value, origin, r.linenr)
            ELSE IF vcomment
            THEN ValueStep("parseValue", value, origin, quote, vcomment, space, r)
            ELSE IF isspace(r.c) /\ ~quote
            THEN ValueStep("parseValue", value, origin, quote, vcomment,
                           IF Len(value) > 0 THEN space + 1 ELSE space, r)
            ELSE IF r.c = ";" \/ r.c = "#"
            THEN ValueStep("parseValue", value, origin, quote, TRUE, space, r)
            ELSE IF r.c = BSLASH
            THEN ValueStep("parseValueEscape", v1, o1, quote, vcomment, 0, r)
            ELSE IF r.c = QUOTE
            THEN ValueStep("parseValue", v1, o1, ~quote, vcomment, 0, r)
            ELSE ValueStep("parseValue", Append(v1, r.c), Append(o1, "ch"),
                           quote, vcomment, 0, r)
         /\ Advance(f, r)

\* One iteration of the loop of parseValue (lines 187-237), up to the read
\* of the rune after a backslash.
ParseValue ==
    /\ pc = "parseValue"
    /\ \E f \in Feeds(runes, unread) :
         LET r == nextRune(f.w, linenr, eof)
             v1 == flush(value, space)
             o1 == origin \o Tags("ws", space)
         IN
         /\ IF r.c = LF
            THEN IF quote
                 THEN StatementFails(ErrUnfinishedQuote, lineFix(r.linenr))
                 ELSE StatementDone(value, origin, r.linenr)
            ELSE IF vcomment
            THEN ValueStep("parseValue", value, origin, quote, vcomment, space, r)
            ELSE IF isspace(r.c) /\ ~quote
            THEN ValueStep("parseValue", value, origin, quote, vcomment,
                           IF Len(value) > 0 THEN space + 1 ELSE space, r)
            ELSE IF ~quote /\ (r.c = ";" \/ r.c = "#")
            THEN ValueStep("parseValue", value, origin, quote, TRUE, space, r)
            ELSE IF r.c = BSLASH
            THEN ValueStep("parseValueEscape", v1, o1, quote, vcomment, 0, r)
            ELSE IF r.c = QUOTE
            THEN ValueStep("parseValue", v1, o1, ~quote, vcomment, 0, r)
            ELSE ValueStep("parseValue", Append(v1, r.c), Append(o1, "ch"),
                           quote, vcomment, 0, r)
         /\ Advance(f, r)

\* The rune after a backslash in a value (lines 216-230).
ParseValueEscape ==
    /\ pc = "parseValueEscape"
    /\ \E f \in Feeds(runes, unread) :
         LET r == nextRune(f.w, linenr, eof)
             x == escape(r.c)
         IN
         /\ IF x = "cont"
            THEN ValueStep("parseValue", value, origin, quote, vcomment, space, r)
            ELSE IF x = "bad"
            THEN StatementFails(ErrInvalidEscapeSequence, r.linenr)
            ELSE ValueStep("parseValue", Append(value, x), Append(origin, "ch"),
                           quote, vcomment, space, r)
         /\ Advance(f, r)

Next ==
    \/ ParseLoop
    \/ GetSectionKey
    \/ ExtSpace
    \/ ExtQuoted
    \/ ExtEscape
    \/ ExtClose
    \/ GetValue
    \/ GetValueSpace
    \/ ParseValue
    \/ ParseValueEscape

Init == Start(Alphabet, MaxLen)

InitHeaders == Start(HeaderAlphabet, MaxHeaderLen)

Spec == Init /\ [][Next]_vars

\* Parse runs on one goroutine and takes its next step whenever it has one.
InitLive == Start(Alphabet, MaxLiveLen)

SpecLive == InitLive /\ [][Next]_vars /\ WF_vars(Next)

\* The cursor on its own: nextRune called again and again on an input that
\* is known in full, also after the end flag is up.
SeqsUpTo(S, n) == UNION {[1..k -> S] : k \in 0..n}

MaxCalls == MaxCursorLen + 2

InitCursor ==
    /\ runes \in SeqsUpTo(CursorAlphabet, MaxCursorLen)
    /\ unread = 0 /\ alphabet = CursorAlphabet
    /\ linenr = 1 /\ eof = FALSE
    /\ pc = "nextRune" /\ err = Nil
    /\ cfg = [k \in {} |-> <<>>] /\ name = <<>> /\ comment = FALSE
    /\ sname = <<>> /\ c = NUL
    /\ key = <<>> /\ value = <<>> /\ quote = FALSE /\ vcomment = FALSE /\ space = 0
    /\ nl = 0 /\ atLF = FALSE /\ calls = 0
    /\ stmts = <<>> /\ typed = <<>> /\ origin = <<>> /\ hdr = <<>>

NextRuneCall ==
    /\ pc = "nextRune"
    /\ calls < MaxCalls
    /\ LET r == nextRune(runes, linenr, eof)
           used == SubSeq(runes, 1, Len(runes) - Len(r.runes))
       IN  /\ runes' = r.runes /\ linenr' = r.linenr /\ eof' = r.eof /\ c' = r.c
           /\ nl' = nl + NumLF(used)
           /\ atLF' = (NumLF(used) > 0)
           /\ calls' = calls + 1
    /\ UNCHANGED <<unread, alphabet, pc, err, cfg, name, comment, sname, key, value,
                   quote, vcomment, space, stmts, typed, origin, hdr>>

NextCursor == NextRuneCall

SpecCursor == InitCursor /\ [][NextCursor]_vars

SpecHeaders == InitHeaders /\ [][Next]_vars


\* ------------------------------------------------------------- properties
RECURSIVE LowerAll(_)
LowerAll(str) == IF str = <<>> THEN <<>>
                 ELSE <<lower(str[1])>> \o LowerAll(Tail(str))

Last(str) == str[Len(str)]

Returned == pc = "done"

Failed == pc = "done" /\ err # Nil

Succeeded == pc = "done" /\ err = Nil

\* the mapping a sequence of completed statements denotes: every key
\* assigned, with the value of the last statement that assigned it
LastWins(log) ==
    [k \in {log[i].key : i \in DOMAIN log} |->
        LET last == CHOOSE i \in DOMAIN log :
                        /\ log[i].key = k
                        /\ \A j \in DOMAIN log : log[j].key = k => j <= i
        IN  log[last].value]

\* the 1-based line of the input that holds the rune read last (the end of
\* the input being on the line after the last '\n')
PhysLine == 1 + nl - (IF atLF THEN 1 ELSE 0)

\* C1: the key name of every statement is stored lower-cased, its first
\* rune included: the stored key is the section prefix followed by the
\* lower-cased name as written.
C1_KeyNameLowerCased ==
    \A i \in DOMAIN stmts :
        /\ stmts[i].key = stmts[i].prefix \o LowerAll(stmts[i].typed)
        /\ stmts[i].key \in DOMAIN cfg

\* C2: when Parse fails, the mapping it returns holds exactly the entries of
\* the statements completed before the fault, the last value winning for
\* each key; the statement or header at fault contributes nothing, and
\* nothing is read after the fault.
C2_PartialMapping ==
    Failed => /\ cfg = LastWins(stmts)
              /\ ~ENABLED Next

C2_Witness ==
    /\ Failed /\ err = ErrUnfinishedQuote
    /\ Len(stmts) = 1
    /\ DOMAIN cfg = {stmts[1].key}

\* C3: when Parse fails, the line number it returns is the line of the input
\* that holds the offending rune, for every error kind, whether the fault is
\* a real newline or the end of the input.
C3_FaultLine == Failed => linenr = PhysLine

\* C7: the mapping holds one entry for each key assigned and, for it, the
\* value of the last statement that assigned the key.
C7_LastWriteWins == cfg = LastWins(stmts)

C7_Witness ==
    /\ Len(stmts) = 2
    /\ stmts[1].key = stmts[2].key
    /\ stmts[1].value # stmts[2].value
    /\ cfg[stmts[2].key] = stmts[2].value

\* C8: on success the line count returned is the number of newlines of the
\* input ('\r\n' counting once) plus one.
C8_LineCount == Succeeded => linenr = nl + 1

C8_Witness == Succeeded /\ nl = 2 /\ linenr = 3 /\ stmts # <<>>


\* the index of the first rune of str that satisfies Test, or Len(str) + 1
FirstIndex(str, Test(_)) ==
    IF \E i \in DOMAIN str : Test(str[i])
    THEN CHOOSE i \in DOMAIN str : Test(str[i]) /\ \A j \in 1..(i - 1) : ~Test(str[j])
    ELSE Len(str) + 1

IsQuote(ch) == ch = QUOTE

IsBlank(ch) == ch \in Spaces

\* of the runes read in a header: those after the opening quote
AfterOpeningQuote(h) == SubSeq(h, FirstIndex(h, IsQuote) + 1, Len(h))

HeaderSites == {"getSectionKey", "extSpace", "extQuoted", "extEscape", "extClose"}

\* a newline of the input is read inside the quoted subsection, after a ']'
UnclosedQuoteCase ==
    /\ pc \in {"extQuoted", "extEscape"}
    /\ atLF'
    /\ \E i \in DOMAIN AfterOpeningQuote(hdr) : AfterOpeningQuote(hdr)[i] = "]"

\* C4 as stated: a header whose quoted subsection is still open at the ']'
\* and the end of the line fails with ErrMissingClosingBracket.
C4_UnclosedQuoteMissingBracket ==
    [][UnclosedQuoteCase => err' = ErrMissingClosingBracket]_vars

\* C4 amended: a header whose quoted subsection is still open at the ']' and
\* the end of the line fails with ErrSectionNewLine.
C4_UnclosedQuoteSectionNewLine ==
    [][UnclosedQuoteCase => (pc' = "done" /\ err' = ErrSectionNewLine)]_vars

C4_Witness ==
    /\ Failed /\ err = ErrSectionNewLine /\ atLF
    /\ \E i, j \in DOMAIN hdr : i < j /\ hdr[i] = QUOTE /\ hdr[j] = "]"
    /\ hdr[1] = "b"

\* C5: when the input ends inside a section header, at any of its call
\* sites, Parse fails with ErrUnexpectedEOF.
C5_HeaderEndsInput ==
    [][(pc \in HeaderSites /\ eof') => (pc' = "done" /\ err' = ErrUnexpectedEOF)]_vars

\* C6: no rune of a stored value comes from unquoted whitespace before the
\* first or after the last value rune.
C6_ValueTrimmed ==
    \A i \in DOMAIN stmts :
        LET o == stmts[i].origin IN
        o # <<>> => (o[1] = "ch" /\ Last(o) = "ch")

\* the header just parsed is an extended one
ExtendedHeaderParsed == pc = "parse" /\ hdr # <<>> /\ Last(hdr) = "]" /\ Len(hdr) >= 3

\* of the runes read in an extended header: the base name as written, and
\* the runes between the enclosing quotes
BaseWritten(h) == SubSeq(h, 1, FirstIndex(h, IsBlank) - 1)

QuotedWritten(h) == SubSeq(h, FirstIndex(h, IsQuote) + 1, Len(h) - 2)

\* a quoted subsection without the backslashes that escape a rune
RECURSIVE Unescape(_)
Unescape(str) ==
    IF str = <<>> THEN <<>>
    ELSE IF str[1] = BSLASH /\ Len(str) >= 2
    THEN <<str[2]>> \o Unescape(SubSeq(str, 3, Len(str)))
    ELSE <<str[1]>> \o Unescape(Tail(str))

\* every backslash of str escapes a quote or a backslash
RECURSIVE OnlyQuoteEscapes(_)
OnlyQuoteEscapes(str) ==
    IF str = <<>> THEN TRUE
    ELSE IF str[1] = BSLASH
    THEN /\ Len(str) >= 2 /\ str[2] \in {QUOTE, BSLASH}
         /\ OnlyQuoteEscapes(SubSeq(str, 3, Len(str)))
    ELSE OnlyQuoteEscapes(Tail(str))

\* C9 as stated: the name of an extended section is the lower-cased base, a
\* '.', and the runes between the enclosing quotes exactly as written (here
\* for the subsections whose only escapes are those of a quote or backslash).
C9_SubsectionVerbatim ==
    (/\ ExtendedHeaderParsed /\ QUOTE \in {hdr[i] : i \in DOMAIN hdr}
     /\ OnlyQuoteEscapes(QuotedWritten(hdr))) =>
        name = LowerAll(BaseWritten(hdr)) \o <<".">> \o QuotedWritten(hdr) \o <<".">>

\* C9 amended: the name of an extended section is the lower-cased base, a
\* '.', and the runes between the enclosing quotes with their case kept and
\* with each escaping backslash dropped.
C9_SubsectionUnescaped ==
    (ExtendedHeaderParsed /\ QUOTE \in {hdr[i] : i \in DOMAIN hdr}) =>
        name = LowerAll(BaseWritten(hdr)) \o <<".">>
               \o Unescape(QuotedWritten(hdr)) \o <<".">>

C9_Witness ==
    /\ pc = "parse"
    /\ hdr = <<"B", SP, QUOTE, "B", QUOTE, "]">>
    /\ name = <<"b", ".", "B", ".">>

\* C10: in a value, outside a comment, a backslash makes the next rune an
\* escape in quoted and in unquoted mode; a newline then continues the value
\* on the next line with the value and the quote mode unchanged, t, b and n
\* append a tab, a backspace and a newline, and any other rune fails with
\* ErrInvalidEscapeSequence.
C10_ValueEscapes ==
    [][/\ (pc = "parseValue" /\ ~vcomment /\ c' = BSLASH) =>
              (pc' = "parseValueEscape" /\ quote' = quote)
       /\ pc = "parseValueEscape" =>
              IF c' = LF
              THEN pc' = "parseValue" /\ value' = value /\ quote' = quote /\ err' = Nil
              ELSE IF c' \in {"t", "b", "n"}
              THEN /\ pc' = "parseValue" /\ quote' = quote /\ err' = Nil
                   /\ value' = Append(value, CASE c' = "t" -> TAB
                                               [] c' = "b" -> BS
                                               [] c' = "n" -> LF)
              ELSE pc' = "done" /\ err' = ErrInvalidEscapeSequence]_vars

C10_Witness ==
    /\ pc = "parseValue" /\ quote
    /\ c = "t" /\ value # <<>> /\ Last(value) = TAB


\* n spaces
Blanks(n) == [i \in 1..n |-> SP]

\* the step completes a statement that stores v under the key being read
Stores(v) ==
    /\ pc' = "parse" /\ err' = Nil
    /\ Len(stmts') = Len(stmts) + 1
    /\ Last(stmts').key = key /\ Last(stmts').value = v
    /\ key \in DOMAIN cfg' /\ cfg'[key] = v

\* C11: in a value a ';' or '#' read outside quote mode starts a comment;
\* every rune after it up to the next newline is discarded, quotes and
\* backslashes included; the newline ends the value, which is the value
\* accumulated before the comment rune, without the whitespace pending then.
C11_ValueComment ==
    [][/\ (pc = "parseValue" /\ ~vcomment /\ ~quote /\ c' \in {";", "#"}) =>
              /\ pc' = "parseValue" /\ vcomment'
              /\ value' = value /\ quote' = quote
       /\ (pc = "parseValue" /\ vcomment /\ c' # LF) =>
              /\ pc' = "parseValue" /\ vcomment' /\ err' = Nil
              /\ value' = value /\ quote' = quote
       /\ (pc = "parseValue" /\ vcomment /\ c' = LF) => Stores(value)]_vars

C11_Witness ==
    /\ pc = "parseValue" /\ vcomment
    /\ value = <<"b">> /\ space = 1
    /\ c \in {QUOTE, BSLASH}

\* C12: in an unquoted value whitespace is counted, not appended, once the
\* value is not empty, and the next rune that is neither whitespace nor a
\* comment rune is preceded by exactly as many spaces as were counted: a run
\* of k blanks between two value runes is stored as k spaces.
C12_InnerWhitespace ==
    [][/\ (pc = "parseValue" /\ ~vcomment /\ ~quote /\ c' \in Spaces \ {LF}) =>
              /\ value' = value
              /\ space' = IF value # <<>> THEN space + 1 ELSE space
       /\ (/\ pc = "parseValue" /\ ~vcomment /\ pc' # "done"
           /\ c' \notin Spaces \cup {";", "#", QUOTE, BSLASH}) =>
              /\ value' = value \o Blanks(space) \o <<c'>>
              /\ space' = 0]_vars

C12_Witness ==
    /\ pc = "parseValue" /\ ~quote
    /\ value = <<"b", SP, SP, "b">>
    /\ origin = <<"ch", "ws", "ws", "ch">>


\* a call of nextRune on a non-empty input takes the rune ch, dropping k
\* runes, and counts a line exactly if ch is a newline
Takes(ch, k) ==
    /\ c' = ch
    /\ runes' = SubSeq(runes, k + 1, Len(runes))
    /\ linenr' = linenr + (IF ch = LF THEN 1 ELSE 0)

CallOnInput == pc = "nextRune" /\ calls' = calls + 1 /\ runes # <<>>

IsCRLF(rs) == Len(rs) >= 2 /\ rs[1] = CR /\ rs[2] = LF

\* C13 as stated: nextRune turns a '\r\n' pair and a lone '\r' into one
\* newline and counts one line for each newline it returns.
C13_CarriageReturnsNormalized ==
    [][CallOnInput =>
          IF IsCRLF(runes) THEN Takes(LF, 2)
          ELSE IF runes[1] = CR THEN Takes(LF, 1)
          ELSE Takes(runes[1], 1)]_vars

\* C13 amended: nextRune turns a '\r\n' pair into one newline and returns a
\* lone '\r' as it is; it counts one line for each newline of the input it
\* returns, so that the counter is one more than the newlines taken so far.
C13_PairNormalized ==
    [][CallOnInput =>
          /\ IF IsCRLF(runes) THEN Takes(LF, 2) ELSE Takes(runes[1], 1)
          /\ linenr' = 1 + nl']_vars

C13_Witness ==
    /\ pc = "nextRune" /\ calls = 2
    /\ c = CR /\ nl = 1 /\ linenr = 2

\* C14: a call of nextRune on the empty input raises the end flag, returns a
\* newline and adds one to the line counter.
C14_EndCounted ==
    [][(pc = "nextRune" /\ calls' = calls + 1 /\ runes = <<>>) =>
          (eof' /\ c' = LF /\ linenr' = linenr + 1)]_vars

\* C20: the end flag is raised only by a call of nextRune on the empty
\* input; once up it stays up, and every later call returns a newline and
\* leaves the (empty) input and the line counter as they are.
C20_EndFlag ==
    [][(pc = "nextRune" /\ calls' = calls + 1) =>
          /\ (eof' /\ ~eof) => runes = <<>>
          /\ eof => /\ eof' /\ c' = LF
                    /\ runes = <<>> /\ runes' = <<>>
                    /\ linenr' = linenr]_vars

C20_Witness ==
    /\ pc = "nextRune" /\ eof /\ runes = <<>>
    /\ calls = 4 /\ nl = 2 /\ linenr = 3 /\ c = LF


\* C15: in the quoted subsection of a header a backslash followed by a quote
\* or a backslash appends that rune, and a backslash followed by any other
\* rune is rejected (ErrInvalidEscapeSequence unless the rune is a newline).
C15_SubsectionEscapes ==
    [][pc = "extEscape" =>
          IF c' \in {QUOTE, BSLASH}
          THEN pc' = "extQuoted" /\ sname' = Append(sname, c')
          ELSE /\ pc' = "done" /\ err' # Nil
               /\ c' # LF => err' = ErrInvalidEscapeSequence]_vars

\* C16: at statement position a rune that is no newline, whitespace, ';',
\* '#', '[' or letter fails with ErrInvalidKeyChar; after a key name and the
\* spaces and tabs that follow it, '=' starts the value, a newline or the end
\* of the input stores the key with the empty value, and any other rune
\* fails with ErrInvalidKeyChar and stores nothing.
C16_StatementShape ==
    [][/\ (/\ pc = "parse" /\ ~comment
           /\ c' \notin Spaces \cup Letters \cup {";", "#", "["}) =>
              (pc' = "done" /\ err' = ErrInvalidKeyChar /\ cfg' = cfg)
       /\ (pc \in {"getValue", "getValueSpace"} /\ c' = "=") =>
              (pc' = "parseValue" /\ value' = <<>> /\ ~quote' /\ cfg' = cfg /\ key' = key)
       /\ (pc \in {"getValue", "getValueSpace"} /\ c' = LF) => Stores(<<>>)
       /\ (\/ pc = "getValue" /\ ~iskeychar(c') /\ c' \notin {SP, TAB, "=", LF}
           \/ pc = "getValueSpace" /\ c' \notin {SP, TAB, "=", LF}) =>
              (pc' = "done" /\ err' = ErrInvalidKeyChar /\ cfg' = cfg)]_vars

C16_Witness ==
    /\ pc = "parse" /\ eof /\ c = LF
    /\ Len(stmts) = 1 /\ stmts[1].value = <<>> /\ stmts[1].typed = <<"b", "1">>
    /\ cfg = (<<"b", "1">> :> <<>>)

\* C17: in a value every unescaped quote outside a comment toggles quote
\* mode and is not stored; in quote mode whitespace, ';' and '#' are stored
\* as they are; at the newline or end of input that ends the value Parse
\* fails with ErrUnfinishedQuote exactly if quote mode is on, and stores the
\* value otherwise.
C17_QuoteMode ==
    [][/\ (pc = "parseValue" /\ ~vcomment /\ c' = QUOTE) =>
              /\ pc' = "parseValue" /\ quote' = ~quote
              /\ value' = value \o Blanks(space)
       /\ (pc = "parseValue" /\ quote /\ c' \in {SP, TAB, CR, ";", "#"}) =>
              /\ pc' = "parseValue" /\ quote' /\ ~vcomment'
              /\ value' = Append(value, c')
       /\ (pc = "parseValue" /\ c' = LF) =>
              IF quote
              THEN pc' = "done" /\ err' = ErrUnfinishedQuote /\ cfg' = cfg
              ELSE Stores(value)]_vars

C17_Witness ==
    /\ pc = "parseValue" /\ quote /\ ~vcomment
    /\ c = ";" /\ value = <<SP, ";">>

\* C18: the key of every statement is the name returned by the last header
\* parsed, a '.', and the key name; only a header changes that prefix, and
\* it is empty before the first header.
C18_SectionPrefix ==
    /\ name = <<>>
    /\ [][/\ ((pc = "getSectionKey" \/ pc = "extClose") /\ pc' = "parse") =>
                 name' = Append(sname, ".")
          /\ (pc \notin HeaderSites /\ pc # "done") => name' = name
          /\ Len(stmts') = Len(stmts) + 1 =>
                 /\ Last(stmts').key \in DOMAIN cfg'
                 /\ Len(Last(stmts').key) = Len(name) + Len(typed)
                 /\ SubSeq(Last(stmts').key, 1, Len(name)) = name
                 /\ LowerAll(SubSeq(Last(stmts').key, Len(name) + 1,
                                    Len(name) + Len(typed))) = LowerAll(typed)]_vars

C18_Witness ==
    /\ pc = "parse" /\ name = <<"b", ".">>
    /\ Len(stmts) = 1 /\ stmts[1].typed = <<"t">>
    /\ DOMAIN cfg = {<<"b", ".", "t">>}


\* C19: on every finite input Parse returns; every step of every loop reads
\* from the cursor, and a read either takes at least one rune from the input
\* or finds it empty, so that every loop is left at the latest on the
\* newline delivered at the end of the input.
C19_Terminates ==
    /\ <>Returned
    /\ [](Returned =>
            err \in {Nil, ErrInvalidKeyChar, ErrUnexpectedEOF,
                     ErrInvalidSectionChar, ErrSectionNewLine,
                     ErrMissingStartQuote, ErrMissingClosingBracket,
                     ErrInvalidEscapeSequence, ErrUnfinishedQuote})
    /\ [][pc # "done" =>
             (eof' \/ Len(runes') + unread' < Len(runes) + unread)]_vars

\* a value whose last rune is a backslash: the newline of the end of input
\* continues it and the next one ends it
C19_Witness ==
    /\ pc = "parseValue" /\ eof /\ c = LF
    /\ runes = <<>> /\ unread = 0

====
